---- MODULE Spec2Model ----
(***************************************************************************)
(* Model of api/index.py: the checklist handlers over the document store.  *)
(* The store holds one daily record per date string (collection            *)
(* 'checklists') and the master task list (config/checklist_items).        *)
(* Every handler is one action; toggle_check is also given in two steps    *)
(* (read, write) for the interleavings of two requests.                    *)
(***************************************************************************)
EXTENDS Integers, Sequences, FiniteSets, TLC

VARIABLES
    master,   \* config/checklist_items .items (<<>> when the document is missing)
    store,    \* collection 'checklists': date string -> <<>> (no document) or <<record>>
    clock,    \* the store's server time: the value SERVER_TIMESTAMP resolves to
    resp,     \* the request handled last and its response
    log,      \* history: the last two writing requests, each with the document it found
    req       \* toggle_check requests in flight (two-step form): local variables

vars == <<master, store, clock, resp, log, req>>

-----------------------------------------------------------------------------
\* Bounds of the model.

\* Number of store writes explored (each write takes one server timestamp).
MaxClock == 3

\* Day-of-year (2024) of the first calendar date of the window.
FirstOrdinal == 31

Tasks == {"A", "B"}
Users == {"u1", "u2"}
Procs == {"p1", "p2"}

\* Ordinals of the calendar window (Jan 31 .. Feb 2) and of the dates written to.
Days == FirstOrdinal .. (FirstOrdinal + 2)
WriteDays == {FirstOrdinal, FirstOrdinal + 1}

-----------------------------------------------------------------------------
\* Dates: 'YYYY-MM-DD' strings are modelled by their eight digits.

\* datetime.strftime('%Y-%m-%d') of day-of-year n of 2024 (n <= 91).
strftime(n) ==
    LET m == IF n <= 31 THEN 1 ELSE IF n <= 60 THEN 2 ELSE 3
        d == IF n <= 31 THEN n ELSE IF n <= 60 THEN n - 31 ELSE n - 60
    IN  <<2, 0, 2, 4, m \div 10, m % 10, d \div 10, d % 10>>

\* datetime.strptime(s, '%Y-%m-%d') as a day-of-year of 2024.
strptime(s) ==
    LET m == s[5] * 10 + s[6]
        d == s[7] * 10 + s[8]
    IN  (IF m = 1 THEN 0 ELSE IF m = 2 THEN 31 ELSE 60) + d

\* Python's '>' on two date strings: lexical, character by character.
StrGreater(a, b) ==
    \E i \in 1..Len(a) : a[i] > b[i] /\ \A j \in 1..(i - 1) : a[j] = b[j]

DateKeys == {strftime(n) : n \in Days}
WriteKeys == {strftime(n) : n \in WriteDays}

-----------------------------------------------------------------------------
\* Documents.

EmptyMap == [x \in {} |-> {}]
NoDoc == <<>>
Null == <<>>

Item(i, p) == [id |-> i, periodDays |-> p]

\* A user's entry as toggle_check writes it.
CheckEntry(now, note) == [timestamp |-> now, checked |-> TRUE, note |-> note]

\* dict.get('checked', {}) and 'items' of a stored record.
CheckedOf(doc) == IF doc = NoDoc THEN EmptyMap ELSE doc[1].checked

\* A stored value of checked[item_id] that is no user-map (a truthy scalar such
\* as true), and the test for a user-map.
NotUserMap == [malformed |-> TRUE]
IsUserMap(v) == DOMAIN v \subseteq Users

\* dict with key k removed / set.
Without(f, k) == [x \in (DOMAIN f) \ {k} |-> f[x]]
With(f, k, v) == [x \in (DOMAIN f) \cup {k} |-> IF x = k THEN v ELSE f[x]]

-----------------------------------------------------------------------------
\* Completion history index.

\* The documents of the collection, and the one stream() yields first (by id).
DocKeys(st) == {k \in DOMAIN st : st[k] # NoDoc}
FirstKey(keys) == CHOOSE k \in keys : \A j \in keys \ {k} : StrGreater(j, k)

\* One iteration of the loop over all_checklists: the inner loop over
\* checked.items() with the truthiness test 'if users_checked'.
ScanStep(acc, doc_date, checked) ==
    LET hit == {i \in DOMAIN checked : DOMAIN checked[i] # {}}
    IN  [i \in (DOMAIN acc) \cup hit |->
            IF i \in hit /\ (i \notin DOMAIN acc \/ StrGreater(doc_date, acc[i]))
            THEN doc_date
            ELSE acc[i]]

RECURSIVE ScanChecklists(_, _, _)
ScanChecklists(st, keys, acc) ==
    IF keys = {} THEN acc
    ELSE LET k == FirstKey(keys)
         IN  ScanChecklists(st, keys \ {k}, ScanStep(acc, k, CheckedOf(st[k])))

fetch_all_last_completions(st) == ScanChecklists(st, DocKeys(st), EmptyMap)

\* The same scan as the handler of /api/checklist/last-completions writes it out.
HandlerScanStep(acc, doc_date, checked) ==
    LET hit == {i \in DOMAIN checked : DOMAIN checked[i] # {}}
    IN  [i \in (DOMAIN acc) \cup hit |->
            IF i \in hit
            THEN IF i \notin DOMAIN acc THEN doc_date
                 ELSE IF StrGreater(doc_date, acc[i]) THEN doc_date ELSE acc[i]
            ELSE acc[i]]

RECURSIVE HandlerScan(_, _, _)
HandlerScan(st, keys, acc) ==
    IF keys = {} THEN acc
    ELSE LET k == FirstKey(keys)
         IN  HandlerScan(st, keys \ {k}, HandlerScanStep(acc, k, CheckedOf(st[k])))

-----------------------------------------------------------------------------
\* Due-date evaluation, as get_checklist and get_calendar_summary each write it.

\* Variants of the test of get_checklist: the boundary day hidden, and the test
\* 'period_days > 0' left out.
IsDueChecklistStrict(item, target, last_completions) ==
    LET period_days == item.periodDays
    IN  IF /\ period_days # Null
           /\ period_days[1] > 0
           /\ item.id \in DOMAIN last_completions
           /\ target - strptime(last_completions[item.id]) <= period_days[1]
        THEN FALSE
        ELSE TRUE

IsDueChecklistAnyPeriod(item, target, last_completions) ==
    LET period_days == item.periodDays
    IN  IF /\ period_days # Null
           /\ item.id \in DOMAIN last_completions
           /\ target - strptime(last_completions[item.id]) < period_days[1]
        THEN FALSE
        ELSE TRUE

IsDueChecklist(item, target, last_completions) ==
    LET period_days == item.periodDays
    IN  IF /\ period_days # Null
           /\ period_days[1] > 0
           /\ item.id \in DOMAIN last_completions
           /\ target - strptime(last_completions[item.id]) < period_days[1]
        THEN FALSE
        ELSE TRUE

IsDueSummary(item, current, last_completions) ==
    LET period_days == item.periodDays
    IN  IF /\ period_days # Null
           /\ period_days[1] > 0
           /\ item.id \in DOMAIN last_completions
           /\ current - strptime(last_completions[item.id]) < period_days[1]
        THEN FALSE
        ELSE TRUE

\* The item list get_checklist synthesizes for a date without a record.
FilteredItems(m, st, date) ==
    LET last_completions == fetch_all_last_completions(st)
        target == strptime(date)
        Due(item) == IsDueChecklist(item, target, last_completions)
    IN  SelectSeq(m, Due)

\* The master items (by position) the loop of get_calendar_summary finds due on
\* one day, and its items_due_count.
SummaryDue(m, last_completions, current) ==
    {n \in 1..Len(m) : IsDueSummary(m[n], current, last_completions)}

ItemsDueCount(m, last_completions, current) ==
    Cardinality(SummaryDue(m, last_completions, current))

-----------------------------------------------------------------------------
\* Day summaries.

\* Whether any user's entry of the task has a truthy 'checked'.
IsItemChecked(user_data) == \E u \in DOMAIN user_data : user_data[u].checked

\* user_checks: per user, the number of tasks the user's entry checks.
UserChecks(all_checked_items) ==
    LET names == {u \in Users : \E i \in DOMAIN all_checked_items :
                      u \in DOMAIN all_checked_items[i] /\ all_checked_items[i][u].checked}
    IN  [u \in names |->
            Cardinality({i \in DOMAIN all_checked_items :
                u \in DOMAIN all_checked_items[i] /\ all_checked_items[i][u].checked})]

\* Variants of the day summary: total_checked counted once per checking user,
\* and total_due always recomputed from the master list.
DaySummaryPerUser(m, st, last_completions, current) ==
    LET doc == st[strftime(current)]
        items_due_count == ItemsDueCount(m, last_completions, current)
        hasChecked == doc # NoDoc /\ DOMAIN doc[1].checked # {}
    IN  [submitted |-> hasChecked,
         total_checked |->
            IF hasChecked
            THEN Cardinality({iu \in (DOMAIN doc[1].checked) \X Users :
                    /\ iu[2] \in DOMAIN doc[1].checked[iu[1]]
                    /\ doc[1].checked[iu[1]][iu[2]].checked})
            ELSE 0,
         users |-> IF hasChecked THEN UserChecks(doc[1].checked) ELSE EmptyMap,
         total_due |-> IF doc # NoDoc THEN Len(doc[1].items) ELSE items_due_count]

DaySummaryRecomputed(m, st, last_completions, current) ==
    LET doc == st[strftime(current)]
        items_due_count == ItemsDueCount(m, last_completions, current)
        hasChecked == doc # NoDoc /\ DOMAIN doc[1].checked # {}
    IN  [submitted |-> hasChecked,
         total_checked |->
            IF hasChecked
            THEN Cardinality({i \in DOMAIN doc[1].checked : IsItemChecked(doc[1].checked[i])})
            ELSE 0,
         users |-> IF hasChecked THEN UserChecks(doc[1].checked) ELSE EmptyMap,
         total_due |-> items_due_count]

DaySummary(m, st, last_completions, current) ==
    LET doc == st[strftime(current)]
        items_due_count == ItemsDueCount(m, last_completions, current)
        hasChecked == doc # NoDoc /\ DOMAIN doc[1].checked # {}
    IN  [submitted |-> hasChecked,
         total_checked |->
            IF hasChecked
            THEN Cardinality({i \in DOMAIN doc[1].checked : IsItemChecked(doc[1].checked[i])})
            ELSE 0,
         users |-> IF hasChecked THEN UserChecks(doc[1].checked) ELSE EmptyMap,
         total_due |-> IF doc # NoDoc THEN Len(doc[1].items) ELSE items_due_count]

\* A variant of the loop that stops before the end date.
RECURSIVE SummaryLoopExclusive(_, _, _, _, _, _)
SummaryLoopExclusive(m, st, last_completions, current, end, summary_data) ==
    IF current < end
    THEN SummaryLoopExclusive(m, st, last_completions, current + 1, end,
                              With(summary_data, strftime(current),
                                   DaySummary(m, st, last_completions, current)))
    ELSE summary_data

\* The loop 'while current_dt <= end_dt' with its step of one day.
RECURSIVE SummaryLoop(_, _, _, _, _, _)
SummaryLoop(m, st, last_completions, current, end, summary_data) ==
    IF current <= end
    THEN SummaryLoop(m, st, last_completions, current + 1, end,
                     With(summary_data, strftime(current),
                          DaySummary(m, st, last_completions, current)))
    ELSE summary_data

\* Whether the loop raises: user_data.items() on a value of the checked map of a
\* record of the range that is no user-map (caught by the handler's except).
SummaryRaises(st, start_date, end_date) ==
    \E current \in strptime(start_date) .. strptime(end_date) :
        /\ st[strftime(current)] # NoDoc
        /\ \E i \in DOMAIN st[strftime(current)][1].checked :
                ~IsUserMap(st[strftime(current)][1].checked[i])

CalendarSummary(m, st, start_date, end_date) ==
    [summaryData |-> SummaryLoop(m, st, fetch_all_last_completions(st),
                                 strptime(start_date), strptime(end_date), EmptyMap),
     totalMasterItems |-> Len(m)]

-----------------------------------------------------------------------------
\* Writes to a daily record.

\* Variants of the edit: one that overwrites an entry it finds instead of
\* deleting it, and one that leaves the emptied user-map under its key.
ToggleCheckedNeverUnchecks(checked, item_id, user, note, now) ==
    LET c == IF item_id \notin DOMAIN checked THEN With(checked, item_id, EmptyMap)
             ELSE checked
    IN  With(c, item_id, With(c[item_id], user, CheckEntry(now, note)))

ToggleCheckedKeepsEmptyKey(checked, item_id, user, note, now) ==
    LET c == IF item_id \notin DOMAIN checked THEN With(checked, item_id, EmptyMap)
             ELSE checked
    IN  IF user \in DOMAIN c[item_id]
        THEN With(c, item_id, Without(c[item_id], user))
        ELSE With(c, item_id, With(c[item_id], user, CheckEntry(now, note)))

\* toggle_check's edit of the checked map: flips the presence of checked[item_id][user].
ToggleChecked(checked, item_id, user, note, now) ==
    LET c == IF item_id \notin DOMAIN checked THEN With(checked, item_id, EmptyMap)
             ELSE checked
    IN  IF user \in DOMAIN c[item_id]
        THEN LET rest == Without(c[item_id], user)
             IN  IF DOMAIN rest = {} THEN Without(c, item_id) ELSE With(c, item_id, rest)
        ELSE With(c, item_id, With(c[item_id], user, CheckEntry(now, note)))

\* A variant that builds the document anew around the edited checked map,
\* whatever the document read held.
ToggleRecordBlind(doc, date, item_id, user, note, now) ==
    [date |-> date,
     items |-> <<>>,
     checked |-> ToggleChecked(CheckedOf(doc), item_id, user, note, now),
     lastUpdated |-> now]

\* The document toggle_check sets (no merge) from the document it read.
ToggleRecord(doc, date, item_id, user, note, now) ==
    LET checklist_data == IF doc # NoDoc THEN doc[1]
                          ELSE [date |-> date, items |-> <<>>, checked |-> EmptyMap]
    IN  [date |-> checklist_data.date,
         items |-> checklist_data.items,
         checked |-> ToggleChecked(checklist_data.checked, item_id, user, note, now),
         lastUpdated |-> now]

\* set(..., merge=True) on the field 'checked': the maps of the payload are merged
\* into the stored ones path by path; an empty map of the payload replaces the
\* stored value at its path, and so does a value that is no map, or one posted
\* over a stored value that is no map.
MergeChecked(old, new) ==
    IF DOMAIN new = {} THEN EmptyMap
    ELSE [i \in (DOMAIN old) \cup (DOMAIN new) |->
            IF i \notin DOMAIN new THEN old[i]
            ELSE IF DOMAIN new[i] = {} THEN EmptyMap
            ELSE IF i \notin DOMAIN old THEN new[i]
            ELSE IF ~IsUserMap(new[i]) \/ ~IsUserMap(old[i]) THEN new[i]
            ELSE [u \in (DOMAIN old[i]) \cup (DOMAIN new[i]) |->
                    IF u \in DOMAIN new[i] THEN new[i][u] ELSE old[i][u]]]

\* The document update_checklist leaves in the store.
MergeRecord(doc, date, items, checked, now) ==
    [date |-> date,
     items |-> items,
     checked |-> IF doc = NoDoc THEN checked ELSE MergeChecked(doc[1].checked, checked),
     lastUpdated |-> now]

-----------------------------------------------------------------------------
\* Request inputs.

\* Master lists posted to /api/checklist/items.
MasterChoices ==
    { <<Item("A", Null), Item("B", <<2>>)>>,
      <<Item("A", <<1>>), Item("B", <<0>>)>>,
      <<Item("A", <<2>>), Item("B", <<-1>>)>> }

\* A user's entry as a client posts it to /api/checklist.
PostedEntry(b) == [timestamp |-> 0, checked |-> b, note |-> "p"]

\* Bodies posted to /api/checklist: the day's items and checked map.
SummaryPayloads ==
    { [items |-> <<Item("A", Null), Item("B", <<2>>)>>, checked |-> EmptyMap],
      [items |-> <<Item("A", Null)>>,
       checked |-> [i \in {"B"} |-> [u \in {"u1"} |-> PostedEntry(FALSE)]]] }

UpdatePayloads ==
    SummaryPayloads \cup
    { [items |-> <<Item("A", Null)>>, checked |-> [i \in {"A"} |-> EmptyMap]],
      [items |-> <<Item("B", <<2>>)>>,
       checked |-> [i \in {"B"} |-> [u \in {"u1"} |-> PostedEntry(TRUE)]]] }

\* Posted bodies among which one holds a checked value that is no user-map.
DegradedPayloads ==
    { [items |-> <<Item("A", Null)>>, checked |-> [i \in {"A"} |-> NotUserMap]],
      [items |-> <<Item("A", Null)>>,
       checked |-> [i \in {"A"} |-> [u \in {"u1"} |-> PostedEntry(TRUE)]]],
      [items |-> <<>>, checked |-> EmptyMap] }

\* (item_id, user) pairs of the toggle requests sent between summary requests.
TogglePairs == {<<"A", "u1">>, <<"A", "u2">>, <<"B", "u1">>}

\* The history keeps the last two writing requests.
Logged(entry) == IF Len(log) < 2 THEN Append(log, entry) ELSE <<log[2], entry>>

Init ==
    /\ master = <<>>
    /\ store = [k \in DateKeys |-> NoDoc]
    /\ clock = 0
    /\ resp = [op |-> "none"]
    /\ log = <<>>
    /\ req = [p \in Procs |-> [pc |-> "idle"]]

-----------------------------------------------------------------------------
\* Handlers, one request at a time.

set_checklist_items(items) ==
    /\ clock < MaxClock
    /\ master' = items
    /\ clock' = clock + 1
    /\ resp' = [op |-> "set_checklist_items", success |-> TRUE]
    /\ log' = Logged([op |-> "set_checklist_items"])
    /\ UNCHANGED <<store, req>>

update_checklist(date, items, checked) ==
    /\ clock < MaxClock
    /\ store' = [store EXCEPT ![date] =
                    <<MergeRecord(store[date], date, items, checked, clock + 1)>>]
    /\ clock' = clock + 1
    /\ resp' = [op |-> "update_checklist", date |-> date, success |-> TRUE]
    /\ log' = Logged([op |-> "update_checklist", date |-> date, checked |-> checked,
                      found |-> store[date]])
    /\ UNCHANGED <<master, req>>

toggle_check(date, item_id, user, note) ==
    /\ clock < MaxClock
    /\ store' = [store EXCEPT ![date] =
                    <<ToggleRecord(store[date], date, item_id, user, note, clock + 1)>>]
    /\ clock' = clock + 1
    /\ resp' = [op |-> "toggle_check", date |-> date, item_id |-> item_id, user |-> user,
                success |-> TRUE, checked |-> CheckedOf(store'[date])]
    /\ log' = Logged([op |-> "toggle_check", date |-> date, item_id |-> item_id,
                      user |-> user, found |-> store[date]])
    /\ UNCHANGED <<master, req>>

get_checklist(date) ==
    /\ resp' = [op |-> "get_checklist", date |-> date,
                body |-> IF store[date] # NoDoc
                         THEN store[date][1]
                         ELSE [date |-> date,
                               items |-> FilteredItems(master, store, date),
                               checked |-> EmptyMap]]
    /\ UNCHANGED <<master, store, clock, log, req>>

get_last_completions ==
    /\ resp' = [op |-> "get_last_completions",
                lastCompletions |-> HandlerScan(store, DocKeys(store), EmptyMap)]
    /\ UNCHANGED <<master, store, clock, log, req>>

get_calendar_summary(start_date, end_date) ==
    /\ resp' = IF SummaryRaises(store, start_date, end_date)
               THEN [op |-> "get_calendar_summary", start_date |-> start_date,
                     end_date |-> end_date, error |-> TRUE, status_code |-> 500]
               ELSE [op |-> "get_calendar_summary", start_date |-> start_date,
                     end_date |-> end_date,
                     body |-> CalendarSummary(master, store, start_date, end_date)]
    /\ UNCHANGED <<master, store, clock, log, req>>

Next ==
    \/ \E items \in MasterChoices : set_checklist_items(items)
    \/ \E date \in WriteKeys, p \in SummaryPayloads :
            update_checklist(date, p.items, p.checked)
    \/ \E date \in WriteKeys, t \in TogglePairs :
            toggle_check(date, t[1], t[2], "")
    \/ \E date \in DateKeys : get_checklist(date)
    \/ get_last_completions
    \/ \E start_date \in DateKeys, end_date \in DateKeys :
            get_calendar_summary(start_date, end_date)

Spec == Init /\ [][Next]_vars

\* The writes to daily records alone, over every posted body and every toggle.
NextToggle ==
    \/ \E date \in WriteKeys, p \in UpdatePayloads :
            update_checklist(date, p.items, p.checked)
    \/ \E date \in WriteKeys, item_id \in Tasks, user \in Users :
            toggle_check(date, item_id, user, "")

SpecToggle == Init /\ [][NextToggle]_vars

\* Summaries over records as clients may post them, well-formed or not.
NextDegraded ==
    \/ \E items \in MasterChoices : set_checklist_items(items)
    \/ \E date \in WriteKeys, p \in DegradedPayloads :
            update_checklist(date, p.items, p.checked)
    \/ \E start_date \in DateKeys, end_date \in DateKeys :
            get_calendar_summary(start_date, end_date)

SpecDegraded == Init /\ [][NextDegraded]_vars

-----------------------------------------------------------------------------
\* toggle_check in two steps, for two requests handled at the same time: the
\* read of the document (doc_ref.get()) and the write (doc_ref.set()) are
\* separate calls to the store.

ToggleRead(p, date, item_id, user, note) ==
    /\ req[p].pc = "idle"
    /\ req' = [req EXCEPT ![p] = [pc |-> "read", date |-> date, item_id |-> item_id,
                                  user |-> user, note |-> note,
                                  doc |-> store[date], readAt |-> clock]]
    /\ UNCHANGED <<master, store, clock, resp, log>>

\* A variant of the write that edits the document as the store holds it at the
\* time of the write, not as the request read it.
ToggleWriteFresh(p) ==
    /\ req[p].pc = "read"
    /\ store' = [store EXCEPT ![req[p].date] =
                    <<ToggleRecord(store[req[p].date], req[p].date, req[p].item_id,
                                   req[p].user, req[p].note, clock + 1)>>]
    /\ clock' = clock + 1
    /\ req' = [req EXCEPT ![p] = [pc |-> "done", date |-> req[p].date,
                                  item_id |-> req[p].item_id, user |-> req[p].user,
                                  note |-> req[p].note, doc |-> req[p].doc,
                                  readAt |-> req[p].readAt, wroteAt |-> clock + 1]]
    /\ UNCHANGED <<master, resp, log>>

ToggleWrite(p) ==
    /\ req[p].pc = "read"
    /\ store' = [store EXCEPT ![req[p].date] =
                    <<ToggleRecord(req[p].doc, req[p].date, req[p].item_id,
                                   req[p].user, req[p].note, clock + 1)>>]
    /\ clock' = clock + 1
    /\ req' = [req EXCEPT ![p] = [pc |-> "done", date |-> req[p].date,
                                  item_id |-> req[p].item_id, user |-> req[p].user,
                                  note |-> req[p].note, doc |-> req[p].doc,
                                  readAt |-> req[p].readAt, wroteAt |-> clock + 1]]
    /\ UNCHANGED <<master, resp, log>>

NextRace ==
    \/ \E p \in Procs, date \in WriteKeys, item_id \in Tasks, user \in Users :
            ToggleRead(p, date, item_id, user, "")
    \/ \E p \in Procs : ToggleWrite(p)

SpecRace == Init /\ [][NextRace]_vars

-----------------------------------------------------------------------------
\* Properties.

InSeq(x, s) == \E n \in 1..Len(s) : s[n] = x

\* A recurring master item (periodDays > 0) and its period.
Recurring(item) == item.periodDays # Null /\ item.periodDays[1] > 0

\* Whether the response in resp is a calendar summary that covers day d.
SummaryCovers(d) ==
    resp.op = "get_calendar_summary" /\ strftime(d) \in DOMAIN resp.body.summaryData

\* Whether the response in resp is the list get_checklist synthesized for day d.
SynthesizedFor(d) ==
    resp.op = "get_checklist" /\ resp.date = strftime(d) /\ store[resp.date] = NoDoc

\* C1: a master task with periodDays = P > 0 whose last completion date in the
\* index is D is not due on D + k for 0 <= k < P and due on D + k for k >= P,
\* in the list get_checklist synthesizes for a date without a record and in the
\* due count of get_calendar_summary (items_due_count, returned as total_due for
\* a date without a record).
C1_DueFromPeriodAfterLastCompletion ==
    LET last == fetch_all_last_completions(store)
        Hidden(item, d) == /\ Recurring(item)
                           /\ item.id \in DOMAIN last
                           /\ d - strptime(last[item.id]) < item.periodDays[1]
    IN  \A d \in Days :
          /\ \A n \in 1..Len(master) :
                LET item == master[n]
                IN  (Recurring(item) /\ item.id \in DOMAIN last
                        /\ d - strptime(last[item.id]) >= 0) =>
                    LET k == d - strptime(last[item.id])
                    IN  /\ SynthesizedFor(d) =>
                            (InSeq(item, resp.body.items) <=> k >= item.periodDays[1])
                        /\ SummaryCovers(d) =>
                            (n \in SummaryDue(master, last, d) <=> k >= item.periodDays[1])
          /\ (SummaryCovers(d) /\ store[strftime(d)] = NoDoc) =>
                resp.body.summaryData[strftime(d)].total_due =
                    Cardinality({n \in 1..Len(master) : ~Hidden(master[n], d)})

\* C1 witness: a summary covers D + 1 and D + 2, neither with a record, for a
\* master task of period 2 completed last on D: hidden on D + 1, due on D + 2.
C1_Witness ==
    LET last == fetch_all_last_completions(store)
    IN  \E n \in 1..Len(master) :
          /\ master[n].periodDays = <<2>>
          /\ master[n].id \in DOMAIN last
          /\ LET D == strptime(last[master[n].id])
             IN  /\ D + 2 \in Days
                 /\ SummaryCovers(D + 1) /\ SummaryCovers(D + 2)
                 /\ store[strftime(D + 1)] = NoDoc /\ store[strftime(D + 2)] = NoDoc
                 /\ n \notin SummaryDue(master, last, D + 1)
                 /\ n \in SummaryDue(master, last, D + 2)
                 /\ resp.body.summaryData[strftime(D + 1)].total_due <
                        resp.body.summaryData[strftime(D + 2)].total_due

\* C2: a master task whose periodDays is null or <= 0 is due on every date,
\* whatever the completion history (a last completion on or after the date
\* included): it is in every synthesized list and in every day's due set.
C2_NonRecurringAlwaysDue ==
    LET last == fetch_all_last_completions(store)
    IN  \A n \in 1..Len(master) :
          ~Recurring(master[n]) =>
            \A d \in Days :
              /\ SynthesizedFor(d) => InSeq(master[n], resp.body.items)
              /\ SummaryCovers(d) => n \in SummaryDue(master, last, d)

\* C2 witness: a list synthesized for a date before the last completion of a
\* master task of period <= 0, which the list holds.
C2_Witness ==
    LET last == fetch_all_last_completions(store)
    IN  \E n \in 1..Len(master), d \in Days :
          /\ master[n].periodDays # Null
          /\ master[n].periodDays[1] <= 0
          /\ master[n].id \in DOMAIN last
          /\ strptime(last[master[n].id]) > d
          /\ SynthesizedFor(d)
          /\ InSeq(master[n], resp.body.items)

\* The dates of the records in which some user's entry for the task has checked = true.
CheckedDates(st, i) ==
    {k \in DocKeys(st) : /\ i \in DOMAIN st[k][1].checked
                         /\ \E u \in DOMAIN st[k][1].checked[i] : st[k][1].checked[i][u].checked}

\* Whether idx maps each task to the latest date of CheckedDates, and holds no
\* task without such a date.
IsLastCheckedIndex(idx, st) ==
    \A i \in Tasks :
        IF CheckedDates(st, i) = {}
        THEN i \notin DOMAIN idx
        ELSE /\ i \in DOMAIN idx
             /\ idx[i] \in CheckedDates(st, i)
             /\ \A k \in CheckedDates(st, i) : strptime(k) <= strptime(idx[i])

\* C3: the completion index maps each task-id to the maximum record date on which
\* some user's entry for the task has checked = true, and a task-id with no such
\* entry on any date is absent from it (fetch_all_last_completions, and the
\* response of get_last_completions).
C3_IndexIsLastCheckedDate ==
    /\ IsLastCheckedIndex(fetch_all_last_completions(store), store)
    /\ resp.op = "get_last_completions" => IsLastCheckedIndex(resp.lastCompletions, store)

\* Whether the last two requests were toggle_check calls with the same date,
\* item and user (SpecToggle handles nothing between two writes).
ToggledTwice ==
    /\ Len(log) = 2
    /\ log[1].op = "toggle_check" /\ log[2].op = "toggle_check"
    /\ log[1].date = log[2].date
    /\ log[1].item_id = log[2].item_id
    /\ log[1].user = log[2].user

\* C4 as stated: two consecutive toggle_check calls with the same (date, item,
\* user) leave the date's checked map equal to its value before the first call,
\* whatever the record held.
C4_ToggleTwiceRestores ==
    ToggledTwice => CheckedOf(store[log[1].date]) = CheckedOf(log[1].found)

\* Whether, in the document doc, the user has no entry for the task and the
\* task has no empty user-map.
FreshFor(doc, item_id, user) ==
    LET checked == CheckedOf(doc)
    IN  item_id \in DOMAIN checked =>
            (user \notin DOMAIN checked[item_id] /\ DOMAIN checked[item_id] # {})

\* C4 amended: two consecutive toggle_check calls with the same (date, item, user)
\* leave the date's checked map equal to its value before the first call when,
\* before the first call, the user had no entry for the task and the task's
\* user-map was absent or non-empty.
C4_ToggleTwiceRestoresFresh ==
    (ToggledTwice /\ FreshFor(log[1].found, log[1].item_id, log[1].user)) =>
        CheckedOf(store[log[1].date]) = CheckedOf(log[1].found)

\* C4 witness: a user checked and unchecked a task that another user's entry
\* keeps in the map, and the map is what it was.
C4_Witness ==
    /\ ToggledTwice
    /\ FreshFor(log[1].found, log[1].item_id, log[1].user)
    /\ log[1].item_id \in DOMAIN CheckedOf(log[1].found)
    /\ log[1].user \in DOMAIN CheckedOf(log[2].found)[log[1].item_id]
    /\ CheckedOf(store[log[1].date]) = CheckedOf(log[1].found)

\* C5 as stated: no stored daily record has a task-id whose user-map is empty.
C5_NoEmptyUserMaps ==
    \A k \in DocKeys(store) :
        \A i \in DOMAIN store[k][1].checked : DOMAIN store[k][1].checked[i] # {}

\* Whether the request of this step is an update_checklist whose posted checked
\* map holds an empty user-map.
PostsEmptyUserMap ==
    /\ log' # <<>>
    /\ log'[Len(log')].op = "update_checklist"
    /\ \E i \in DOMAIN log'[Len(log')].checked : DOMAIN log'[Len(log')].checked[i] = {}

\* C5 amended: every toggle_check, and every update_checklist whose posted
\* checked map holds no empty user-map, leaves the store without empty user-maps
\* when it found it so (and the store starts without any).
C5_EmptyUserMapsOnlyPosted ==
    [][(C5_NoEmptyUserMaps /\ ~PostsEmptyUserMap) => C5_NoEmptyUserMaps']_vars

\* C5 witness: a toggle_check removed the only entry of a task, and the task's
\* key with it.
C5_Witness ==
    /\ log # <<>>
    /\ LET last == log[Len(log)]
       IN  /\ last.op = "toggle_check"
           /\ last.item_id \in DOMAIN CheckedOf(last.found)
           /\ DOMAIN CheckedOf(last.found)[last.item_id] = {last.user}
           /\ last.item_id \notin DOMAIN CheckedOf(store[last.date])
           /\ C5_NoEmptyUserMaps

\* The index of the data model: per task, the latest date of CheckedDates.
LastCheckedIndex(st) ==
    [i \in {t \in Tasks : CheckedDates(st, t) # {}} |->
        CHOOSE k \in CheckedDates(st, i) :
            \A j \in CheckedDates(st, i) : strptime(j) <= strptime(k)]

\* Whether the task is due on day d given the index idx: not recurring, never
\* completed, or at least periodDays days after its last completion.
DueOn(item, d, idx) ==
    \/ ~Recurring(item)
    \/ item.id \notin DOMAIN idx
    \/ d - strptime(idx[item.id]) >= item.periodDays[1]

\* C6: for every date of the requested range without a stored record, the day
\* summary has submitted = false, total_checked = 0 and total_due equal to the
\* number of master tasks due on that date, a recurring task that was never
\* completed counting as due.
C6_NoRecordSummary ==
    \A d \in Days :
        (SummaryCovers(d) /\ store[strftime(d)] = NoDoc) =>
            LET day == resp.body.summaryData[strftime(d)]
            IN  /\ day.submitted = FALSE
                /\ day.total_checked = 0
                /\ day.total_due =
                      Cardinality({n \in 1..Len(master) :
                          DueOn(master[n], d, LastCheckedIndex(store))})

\* C7: for a date with a stored record, total_checked is the number of task-ids
\* of the record's checked map with at least one user entry with checked = true
\* (once per task-id, whatever the number of users), and submitted is true
\* exactly when the checked map is non-empty.
C7_CheckedOncePerTask ==
    \A d \in Days :
        (SummaryCovers(d) /\ store[strftime(d)] # NoDoc) =>
            LET day == resp.body.summaryData[strftime(d)]
                checked == store[strftime(d)][1].checked
            IN  /\ day.total_checked =
                      Cardinality({i \in DOMAIN checked :
                          \E u \in DOMAIN checked[i] : checked[i][u].checked = TRUE})
                /\ day.submitted = (DOMAIN checked # {})

\* C7 witness: a summary of a record in which two users checked one task and
\* another task has only an entry with checked = false: total_checked is 1.
C7_Witness ==
    \E d \in Days :
        /\ SummaryCovers(d)
        /\ store[strftime(d)] # NoDoc
        /\ LET checked == store[strftime(d)][1].checked
           IN  /\ \E i \in DOMAIN checked :
                     /\ Cardinality(DOMAIN checked[i]) = 2
                     /\ \A u \in DOMAIN checked[i] : checked[i][u].checked
               /\ \E i \in DOMAIN checked :
                     /\ DOMAIN checked[i] # {}
                     /\ \A u \in DOMAIN checked[i] : ~checked[i][u].checked
               /\ resp.body.summaryData[strftime(d)].total_checked = 1
               /\ resp.body.summaryData[strftime(d)].submitted

\* C8: get_calendar_summary(start, end) returns one day summary for every date d
\* with start <= d <= end and for no other date (none when start > end), and the
\* summary of each date is the one the range (d, d) yields on the same store.
C8_RangeInclusive ==
    resp.op = "get_calendar_summary" =>
        /\ DOMAIN resp.body.summaryData =
              {strftime(d) : d \in {x \in Days : /\ strptime(resp.start_date) <= x
                                                 /\ x <= strptime(resp.end_date)}}
        /\ \A k \in DOMAIN resp.body.summaryData :
              resp.body.summaryData[k] =
                  CalendarSummary(master, store, k, k).summaryData[k]

\* C8 witness: a summary over the whole window, with and without records in it.
C8_Witness ==
    /\ resp.op = "get_calendar_summary"
    /\ strptime(resp.start_date) + 2 = strptime(resp.end_date)
    /\ Cardinality(DOMAIN resp.body.summaryData) = 3
    /\ \E k \in DOMAIN resp.body.summaryData : store[k] # NoDoc
    /\ \E k \in DOMAIN resp.body.summaryData : store[k] = NoDoc

\* total_due of the day summary of date k on the given master list and store.
TotalDue(m, st, k) == CalendarSummary(m, st, k, k).summaryData[k].total_due

\* Whether the request of this step replaces the master list, or toggles a
\* completion on a date other than k.
LeavesRecordOf(k) ==
    /\ log' # log
    /\ \/ log'[Len(log')].op = "set_checklist_items"
       \/ log'[Len(log')].op = "toggle_check" /\ log'[Len(log')].date # k

\* C9: for a date whose stored record holds an items snapshot, total_due of the
\* summary is the number of items of the snapshot, and neither a replacement of
\* the master list nor a completion toggled on another date changes it.
C9_PersistedTotalDue ==
    [][\A k \in DateKeys :
          /\ (resp'.op = "get_calendar_summary" /\ k \in DOMAIN resp'.body.summaryData
                  /\ store'[k] # NoDoc) =>
                resp'.body.summaryData[k].total_due = Len(store'[k][1].items)
          /\ (store[k] # NoDoc /\ LeavesRecordOf(k)) =>
                TotalDue(master', store', k) = TotalDue(master, store, k)]_vars

\* C9 witness: a summary after the master list was replaced, of a record written
\* before: total_due is the length of its snapshot, not the number of master
\* tasks due that day.
C9_Witness ==
    \E k \in DateKeys :
        /\ resp.op = "get_calendar_summary"
        /\ k \in DOMAIN resp.body.summaryData
        /\ store[k] # NoDoc
        /\ log # <<>>
        /\ log[Len(log)].op = "set_checklist_items"
        /\ Len(store[k][1].items) = 1
        /\ resp.body.summaryData[k].total_due = 1
        /\ ItemsDueCount(master, fetch_all_last_completions(store), strptime(k)) = 2

\* Two finished toggle_check requests of two different users for the same date
\* and task.
SameTarget(p, q) ==
    /\ p # q
    /\ req[p].pc = "done" /\ req[q].pc = "done"
    /\ req[p].date = req[q].date
    /\ req[p].item_id = req[q].item_id
    /\ req[p].user # req[q].user

\* The users with an entry for the task of request p in the stored record.
StoredUsers(p) ==
    LET checked == CheckedOf(store[req[p].date])
    IN  IF req[p].item_id \in DOMAIN checked THEN DOMAIN checked[req[p].item_id] ELSE {}

\* C10: of two toggle_check requests of two users for the same date and task
\* that both read the record before either wrote it, the stored record keeps
\* only the entry of the request that wrote last (a lost update); when one
\* request read after the other wrote, the record holds both entries.
C10_LostUpdateOnlyWhenInterleaved ==
    \A p \in Procs, q \in Procs :
        SameTarget(p, q) =>
            /\ (req[p].readAt < req[q].wroteAt /\ req[q].readAt < req[p].wroteAt
                    /\ req[p].wroteAt < req[q].wroteAt) =>
                  StoredUsers(p) = {req[q].user}
            /\ req[q].readAt >= req[p].wroteAt =>
                  StoredUsers(p) = {req[p].user, req[q].user}

\* C10 witness: both requests read the missing record, both wrote, and the
\* record holds one entry.
C10_Witness ==
    \E p \in Procs, q \in Procs :
        /\ SameTarget(p, q)
        /\ req[p].readAt < req[q].wroteAt /\ req[q].readAt < req[p].wroteAt
        /\ Cardinality(StoredUsers(p)) = 1

\* The entries of the user-map of task i in the checked map, but the user's own.
OthersOn(checked, i, user) ==
    IF i \in DOMAIN checked THEN Without(checked[i], user) ELSE EmptyMap

\* Whether the user has an entry for task i in the checked map.
HasEntry(checked, i, user) == i \in DOMAIN checked /\ user \in DOMAIN checked[i]

\* C11: a toggle_check on (date, item, user) against an existing record changes
\* only checked[item][user] (with the removal of the emptied item key) and
\* lastUpdated: the record's date and items snapshot, the entries of the other
\* task-ids and the entries of the other users of the same task are after the
\* call what they were before it.
C11_ToggleFrame ==
    (log # <<>> /\ log[Len(log)].op = "toggle_check" /\ log[Len(log)].found # NoDoc) =>
        LET call == log[Len(log)]
            pre == call.found[1]
            post == store[call.date][1]
        IN  /\ post.date = pre.date
            /\ post.items = pre.items
            /\ Without(post.checked, call.item_id) = Without(pre.checked, call.item_id)
            /\ OthersOn(post.checked, call.item_id, call.user) =
                   OthersOn(pre.checked, call.item_id, call.user)
            /\ HasEntry(post.checked, call.item_id, call.user) <=>
                   ~HasEntry(pre.checked, call.item_id, call.user)
            /\ (call.item_id \in DOMAIN post.checked) <=>
                   \/ ~HasEntry(pre.checked, call.item_id, call.user)
                   \/ DOMAIN OthersOn(pre.checked, call.item_id, call.user) # {}
            /\ post.lastUpdated = clock

\* C11 witness: a toggle_check on a record with a non-empty items snapshot, an
\* entry of another task and an entry of another user for the toggled task.
C11_Witness ==
    /\ log # <<>>
    /\ log[Len(log)].op = "toggle_check"
    /\ log[Len(log)].found # NoDoc
    /\ LET call == log[Len(log)]
           pre == call.found[1]
           post == store[call.date][1]
       IN  /\ pre.items # <<>>
           /\ post.items = pre.items
           /\ \E i \in DOMAIN pre.checked : i # call.item_id /\ DOMAIN pre.checked[i] # {}
           /\ DOMAIN OthersOn(pre.checked, call.item_id, call.user) # {}
           /\ HasEntry(post.checked, call.item_id, call.user)

\* C12: in get_calendar_summary a lookup failure while deriving the summary (a
\* missing master list document, a stored record that is malformed, such as a
\* checked value that is no user-map) yields empty or zero values for the part
\* it affects and never an error for the whole call: with the store reachable,
\* as it always is here, the response is a summary of every day of the range.
C12_SummaryDegrades ==
    resp.op = "get_calendar_summary" =>
        /\ "error" \notin DOMAIN resp
        /\ "body" \in DOMAIN resp
        /\ DOMAIN resp.body.summaryData =
              {strftime(d) : d \in {x \in Days : /\ strptime(resp.start_date) <= x
                                                 /\ x <= strptime(resp.end_date)}}

\* C13: after any sequence of set_checklist_items, update_checklist and
\* toggle_check, every day summary returned by get_calendar_summary has
\* total_checked <= total_due, also for a day whose record a toggle_check
\* created.
C13_CheckedAtMostDue ==
    resp.op = "get_calendar_summary" =>
        \A k \in DOMAIN resp.body.summaryData :
            resp.body.summaryData[k].total_checked <= resp.body.summaryData[k].total_due

====
